---- MODULE Spec2Model ----
(***************************************************************************)
(* Model of dashboard_consolidado.py: a Streamlit script that loads a      *)
(* semicolon-delimited CSV (memoised by st.cache_data), offers four        *)
(* multiselect filters, filters the table and renders a summary, three     *)
(* aggregates and a detail table.  One script run is a sequence of steps,  *)
(* one per st.* call: pc names the call the run has reached.  Every st.*   *)
(* call is a point where a pending stop or rerun request ends the run      *)
(* before the call takes effect; a user interaction re-runs the script     *)
(* from the top.                                                           *)
(***************************************************************************)
EXTENDS Integers, Sequences, FiniteSets, TLC

VARIABLES
    file,                       \* what is on disk at ARQUIVO_DADOS
    reads,                      \* number of times pd.read_csv was executed
    cache,                      \* st.cache_data entry for ARQUIVO_DADOS
    cache_hit,                  \* the last loader call was served by the cache
    pc,                         \* the st.* call the current run has reached
    excecao,                    \* line of the uncaught exception, 0 if none
    df,                         \* module variable df
    rendered,                   \* elements shown on the page in this run
    widgets,                    \* the multiselects the browser holds
    anos_disponiveis, meses_disponiveis,
    procedimentos_disponiveis, clientes_disponiveis,
    anos_selecionados, meses_selecionados,
    procedimentos_selecionados, clientes_selecionados,
    df_filtrado,
    total_quantidade, num_registros,
    df_evolucao, df_top_proc, df_cliente,
    detalhe                     \* rows handed to st.dataframe

carga == << file, reads, cache, cache_hit >>

opcoes == << anos_disponiveis, meses_disponiveis,
             procedimentos_disponiveis, clientes_disponiveis >>

selecoes == << anos_selecionados, meses_selecionados,
               procedimentos_selecionados, clientes_selecionados >>

agregados == << total_quantidade, num_registros,
                df_evolucao, df_top_proc, df_cliente, detalhe >>

vars == << carga, pc, excecao, df, rendered, widgets, opcoes, selecoes,
           df_filtrado, agregados >>

----------------------------------------------------------------------------
(* Bounds *)

MaxRows == 2            \* rows of a small input file
MaxTopRows == 12        \* rows of a large input file (many procedures)
MaxReads == 3           \* reads of the file after which no load is aborted

----------------------------------------------------------------------------
(* Text: a string is a sequence of one-character strings. *)

Range(s) == { s[i] : i \in 1..Len(s) }

Whitespace == { " " }

\* str.upper() on the characters used here
UpperChar(c) ==
    CASE c = "a" -> "A"
      [] c = "b" -> "B"
      [] c = "n" -> "N"
      [] c = "x" -> "X"
      [] c = "y" -> "Y"
      [] OTHER   -> c

\* code point order of the characters used here
Ord(c) ==
    CASE c = " " -> 32
      [] c = "A" -> 65
      [] c = "B" -> 66
      [] c = "N" -> 78
      [] c = "X" -> 88
      [] c = "Y" -> 89
      [] c = "a" -> 97
      [] c = "b" -> 98
      [] c = "n" -> 110
      [] c = "x" -> 120
      [] c = "y" -> 121
      [] OTHER   -> 0

RECURSIVE LStrip(_)
LStrip(s) ==
    IF s # << >> /\ Head(s) \in Whitespace THEN LStrip(Tail(s)) ELSE s

RECURSIVE RStrip(_)
RStrip(s) ==
    IF s # << >> /\ s[Len(s)] \in Whitespace
    THEN RStrip(SubSeq(s, 1, Len(s) - 1))
    ELSE s

\* Series.str.strip() on one string
Strip(s) == RStrip(LStrip(s))

\* Series.str.upper() on one string
StrUpper(s) == [ i \in 1..Len(s) |-> UpperChar(s[i]) ]

\* Python's < on two strings
RECURSIVE StrLess(_, _)
StrLess(a, b) ==
    IF a = << >> THEN b # << >>
    ELSE IF b = << >> THEN FALSE
    ELSE IF Ord(Head(a)) # Ord(Head(b)) THEN Ord(Head(a)) < Ord(Head(b))
    ELSE StrLess(Tail(a), Tail(b))

----------------------------------------------------------------------------
(* Missing values *)

\* float('nan') in an object column; a cell no text can equal
NaN == << "<NaN>" >>

\* pandas.NaT in the Data column
NaT == 0

\* cell texts pd.read_csv turns into NaN: those of its default na_values
\* that can be written with the characters used here ('', NA, NaN, nan)
NAValues ==
    { << >>, << "N", "A" >>, << "N", "a", "N" >>, << "n", "a", "n" >> }

\* pd.read_csv on one text cell
ReadCell(text) == IF text \in NAValues THEN NaN ELSE text

\* Series.astype(str) on one cell
AsTypeStr(v) == IF v = NaN THEN << "n", "a", "n" >> ELSE v

\* line 21: astype(str).str.strip().str.upper()
NormProcedimento(v) == StrUpper(Strip(AsTypeStr(v)))

\* line 22: .str.strip().str.upper(); the .str accessor leaves NaN as NaN
NormCliente(v) == IF v = NaN THEN NaN ELSE StrUpper(Strip(v))

----------------------------------------------------------------------------
(* Dates *)

DateTexts == { "2024-01-05", "2024-01-06" }

\* pd.to_datetime accepts the cell (an empty cell becomes NaT)
DateParses(text) == text = "" \/ text \in DateTexts

\* pd.to_datetime on one cell
ToDatetime(text) ==
    CASE text = "2024-01-05" -> 20240105
      [] text = "2024-01-06" -> 20240106
      [] OTHER -> NaT

----------------------------------------------------------------------------
(* Input files *)

\* the header of a complete file
Colunas == { "Data", "Ano", "Mes", "Cliente", "Procedimento", "Quantidade" }

Linha1 ==
    [Data |-> "2024-01-05", Ano |-> 2024, Mes |-> 1,
     Cliente |-> << "a" >>, Procedimento |-> << " ", "x", " " >>,
     Quantidade |-> 3]

\* representative lines of a CSV file with the six required columns
Catalogo ==
    << Linha1,
      [Data |-> "2024-01-06", Ano |-> 2024, Mes |-> 1,
       Cliente |-> << " ", "A" >>, Procedimento |-> << "X" >>,
       Quantidade |-> 2],
      [Data |-> "2024-01-05", Ano |-> 2023, Mes |-> 2,
       Cliente |-> << "B" >>, Procedimento |-> << "y" >>,
       Quantidade |-> 1],
      [Data |-> "2024-01-06", Ano |-> 2023, Mes |-> 1,
       Cliente |-> << "b", " " >>, Procedimento |-> << "X" >>,
       Quantidade |-> 0],
      [Data |-> "", Ano |-> 2024, Mes |-> 2,
       Cliente |-> << "a" >>, Procedimento |-> << >>,
       Quantidade |-> 2],
      [Data |-> "2024-01-05", Ano |-> 2024, Mes |-> 1,
       Cliente |-> << >>, Procedimento |-> << "y" >>,
       Quantidade |-> 1],
      [Data |-> "xx", Ano |-> 2024, Mes |-> 1,
       Cliente |-> << "a" >>, Procedimento |-> << "x" >>,
       Quantidade |-> 1],
      [Data |-> "2024-01-06", Ano |-> 2023, Mes |-> 2,
       Cliente |-> << "N", "A" >>, Procedimento |-> << "n", "a", "n" >>,
       Quantidade |-> 4],
      [Data |-> "2024-01-06", Ano |-> 2024, Mes |-> 2,
       Cliente |-> << "N", "a", "N" >>, Procedimento |-> << "N", "a", "N" >>,
       Quantidade |-> 1] >>

SeqsUpTo(S, n) == UNION { [1..k -> S] : k \in 0..n }

\* up to n lines of the catalogue, a line possibly repeated, in catalogue
\* order (the order of the lines of a file decides nothing but the order of
\* the rows of the filtered view)
Linhas(n) ==
    { [ i \in 1..Len(idx) |-> Catalogo[idx[i]] ] :
        idx \in { s \in SeqsUpTo(1..Len(Catalogo), n) :
                     \A i \in 1..(Len(s) - 1) : s[i] <= s[i + 1] } }

\* what can be found at the path: nothing, a file read_csv cannot split
\* into the expected header (wrong delimiter, no content), a ';' CSV with
\* the six columns and up to MaxRows lines, or a ';' CSV that lacks one
\* column (a line of such a file carries nothing in that column: the field
\* of its record is never looked at)
SmallFiles ==
    { [kind |-> "missing", cols |-> {}, rows |-> << >>],
      [kind |-> "malformed", cols |-> {}, rows |-> << >>] }
    \cup { [kind |-> "csv", cols |-> Colunas, rows |-> rs] :
               rs \in Linhas(MaxRows) }
    \cup { [kind |-> "csv", cols |-> Colunas \ {c}, rows |-> rs] :
               c \in Colunas, rs \in { << >>, << Linha1 >> } }

ProcLetters == << "a", "b", "x", "y" >>

\* the j-th of sixteen distinct two-letter procedure names
ProcName(j) ==
    << ProcLetters[((j - 1) \div 4) + 1], ProcLetters[((j - 1) % 4) + 1] >>

\* a CSV of n lines over k procedures with the given quantities
BigRows(n, k, q) ==
    [ i \in 1..n |->
        [Data |-> "2024-01-05", Ano |-> 2024, Mes |-> 1,
         Cliente |-> << "a" >>, Procedimento |-> ProcName(((i - 1) % k) + 1),
         Quantidade |-> q[i]] ]

\* a CSV of MaxTopRows-2 .. MaxTopRows lines over n-1 or n procedures
IsBigFile(f) ==
    \E n \in (MaxTopRows - 2)..MaxTopRows :
        \E k \in { n - 1, n } :
            \E q \in [1..n -> {1, 2}] :
                f = [kind |-> "csv", cols |-> Colunas,
                     rows |-> BigRows(n, k, q)]

----------------------------------------------------------------------------
(* Loader: carregar_dados_consolidados *)

NoEntry == [tag |-> "empty", cols |-> {}, rows |-> << >>, msg |-> ""]
Unset == [tag |-> "unset", cols |-> {}, rows |-> << >>]

\* the .str accessor of line 22 needs an object column: a non-empty column
\* whose cells are all missing is read as float64 and raises AttributeError
ClienteStrRaises(rows) ==
    rows # << >> /\ \A i \in 1..Len(rows) : ReadCell(rows[i].Cliente) = NaN

\* body of the cached function: the value returned and the st.error shown.
\* Lines 19, 21 and 22 subscript Data, Procedimento and Cliente: KeyError
\* when the column is absent; no line looks at Ano, Mes or Quantidade.
carregar_dados_consolidados(f) ==
    IF f.kind = "missing"
    THEN [tag |-> "none", cols |-> {}, rows |-> << >>,
          msg |-> "error_notfound"]
    ELSE IF \/ f.kind = "malformed"
            \/ { "Data", "Procedimento", "Cliente" } \ f.cols # {}
            \/ \E i \in 1..Len(f.rows) : ~ DateParses(f.rows[i].Data)
            \/ ClienteStrRaises(f.rows)
    THEN [tag |-> "none", cols |-> {}, rows |-> << >>, msg |-> "error_load"]
    ELSE [tag |-> "table",
          cols |-> f.cols,
          rows |-> [ i \in 1..Len(f.rows) |->
                      [Data |-> ToDatetime(f.rows[i].Data),
                       Ano |-> f.rows[i].Ano,
                       Mes |-> f.rows[i].Mes,
                       Cliente |-> NormCliente(ReadCell(f.rows[i].Cliente)),
                       Procedimento |->
                           NormProcedimento(ReadCell(f.rows[i].Procedimento)),
                       Quantidade |-> f.rows[i].Quantidade] ],
          msg |-> ""]

\* st.cache_data forgets what it stored
CacheLookupForgets(c) == NoEntry

\* st.cache_data: the stored entry for this path, if any
CacheLookup(c) == c

----------------------------------------------------------------------------
(* Sidebar: option lists and selections *)

\* Series.unique() as a set
Unique(rows, col) == { rows[i][col] : i \in 1..Len(rows) }

RECURSIVE SortedInts(_)
SortedInts(S) ==
    IF S = {} THEN << >>
    ELSE LET m == CHOOSE x \in S : \A y \in S : x <= y
         IN << m >> \o SortedInts(S \ {m})

RECURSIVE SortedIntsDesc(_)
SortedIntsDesc(S) ==
    IF S = {} THEN << >>
    ELSE LET m == CHOOSE x \in S : \A y \in S : x >= y
         IN << m >> \o SortedIntsDesc(S \ {m})

RECURSIVE SortedStrs(_)
SortedStrs(S) ==
    IF S = {} THEN << >>
    ELSE LET m == CHOOSE x \in S : \A y \in S : x = y \/ StrLess(x, y)
         IN << m >> \o SortedStrs(S \ {m})

\* sorted() compares a float NaN with a str: TypeError
SortRaises(S) == NaN \in S /\ Cardinality(S) >= 2

\* the multiselect is created without default=
DefaultSelectionNone(options) == {}

\* default=<options>: everything is selected at first render
DefaultSelection(options) == Range(options)

\* value returned by st.sidebar.multiselect
\* a widget the browser still holds keeps its value
Multiselect(name, options) ==
    IF name \in widgets.registered THEN widgets[name]
    ELSE DefaultSelection(options)

WidgetNames == { "anos", "meses", "procedimentos", "clientes" }

NoWidgets ==
    [registered |-> {}, touched |-> FALSE,
     anos |-> {}, meses |-> {}, procedimentos |-> {}, clientes |-> {}]

----------------------------------------------------------------------------
(* Filter *)

\* Series.isin(values) on one cell
IsIn(v, values) == v \in values

\* the last condition is joined with | instead of &
MaskOr(rows, anos, meses, procs, clientes) ==
    [ i \in 1..Len(rows) |->
        \/ /\ IsIn(rows[i].Ano, anos)
           /\ IsIn(rows[i].Mes, meses)
           /\ IsIn(rows[i].Procedimento, procs)
        \/ IsIn(rows[i].Cliente, clientes) ]

\* the boolean mask of lines 78-83
Mask(rows, anos, meses, procs, clientes) ==
    [ i \in 1..Len(rows) |->
        /\ IsIn(rows[i].Ano, anos)
        /\ IsIn(rows[i].Mes, meses)
        /\ IsIn(rows[i].Procedimento, procs)
        /\ IsIn(rows[i].Cliente, clientes) ]

RECURSIVE Take(_, _, _)
\* rows[i..] restricted to the positions where the mask is true
Take(rows, mask, i) ==
    IF i > Len(rows) THEN << >>
    ELSE (IF mask[i] THEN << rows[i] >> ELSE << >>) \o Take(rows, mask, i + 1)

\* df[mask]
FilterRows(rows, anos, meses, procs, clientes) ==
    Take(rows, Mask(rows, anos, meses, procs, clientes), 1)

----------------------------------------------------------------------------
(* Aggregates *)

RECURSIVE SumQuantidade(_)
\* Series.sum() of the Quantidade column
SumQuantidade(rows) ==
    IF rows = << >> THEN 0
    ELSE Head(rows).Quantidade + SumQuantidade(Tail(rows))

RECURSIVE RowsWith(_, _, _)
\* the rows of one group, in table order
RowsWith(rows, col, key) ==
    IF rows = << >> THEN << >>
    ELSE (IF Head(rows)[col] = key THEN << Head(rows) >> ELSE << >>)
         \o RowsWith(Tail(rows), col, key)

\* .first() in place of .sum(): one row stands for its group
GroupTotalFirst(rows, col, key) == RowsWith(rows, col, key)[1].Quantidade

\* ['Quantidade'].sum() of one group
GroupTotal(rows, col, key) == SumQuantidade(RowsWith(rows, col, key))

\* groupby(col)['Quantidade'].sum().reset_index() over the sorted keys;
\* groupby drops missing keys
GroupSum(rows, col, keys) ==
    [ i \in 1..Len(keys) |->
        [key |-> keys[i], Quantidade |-> GroupTotal(rows, col, keys[i])] ]

GroupByData(rows) ==
    GroupSum(rows, "Data", SortedInts(Unique(rows, "Data") \ {NaT}))

GroupByProcedimento(rows) ==
    GroupSum(rows, "Procedimento",
             SortedStrs(Unique(rows, "Procedimento") \ {NaN}))

GroupByCliente(rows) ==
    GroupSum(rows, "Cliente", SortedStrs(Unique(rows, "Cliente") \ {NaN}))

\* the number of groups kept by nlargest(10)
TopN == 10

RemoveAt(s, i) == SubSeq(s, 1, i - 1) \o SubSeq(s, i + 1, Len(s))

\* head(n) in place of nlargest(n)
NLargestHead(n, s) == SubSeq(s, 1, IF Len(s) < n THEN Len(s) ELSE n)

RECURSIVE NLargest(_, _)
\* Series.nlargest(n): descending by value, the first occurrence wins a tie
NLargest(n, s) ==
    IF n = 0 \/ s = << >> THEN << >>
    ELSE LET i == CHOOSE j \in 1..Len(s) :
                    /\ \A k \in 1..Len(s) : s[k].Quantidade <= s[j].Quantidade
                    /\ \A k \in 1..(j - 1) : s[k].Quantidade < s[j].Quantidade
         IN << s[i] >> \o NLargest(n - 1, RemoveAt(s, i))

\* df_filtrado[['Ano', 'Mes', 'Cliente', 'Procedimento', 'Quantidade', 'Data']]
Project(rows) ==
    [ i \in 1..Len(rows) |->
        << rows[i].Ano, rows[i].Mes, rows[i].Cliente, rows[i].Procedimento,
           rows[i].Quantidade, rows[i].Data >> ]

\* line 35: if df is None
ShouldStop(d) == d.tag = "none"

\* the emptiness test never holds
IsEmptyNever(rows) == FALSE

\* DataFrame.empty
IsEmpty(rows) == Len(rows) = 0


----------------------------------------------------------------------------
(* Script runs.  pc = "l<n>" : the run is about to make the st.* call of   *)
(* line n, every Python statement before it done ("saida" is the exit of   *)
(* the spinner st.cache_data wraps around the call of line 33).  An action *)
(* is one st.* call followed by the statements up to the next one.  A run  *)
(* that gets a stop or rerun request goes no further than the st.* call it *)
(* has reached.                                                            *)

\* the positions of a run in script order
Roteiro ==
    << "l7", "l33", "l25", "saida", "l36", "l39", "l40", "l43", "l47", "l55",
       "l63", "l71", "l87", "l90", "l94", "l95", "l96", "l98", "l101",
       "l102", "l106", "l115", "l118", "l128", "l132", "l141", "l144", "l145",
       "l147", "l150", "l151", "done" >>

\* a fresh script namespace and an empty page
FreshRun ==
    /\ df' = Unset
    /\ excecao' = 0
    /\ rendered' = {}
    /\ anos_disponiveis' = << >>
    /\ meses_disponiveis' = << >>
    /\ procedimentos_disponiveis' = << >>
    /\ clientes_disponiveis' = << >>
    /\ anos_selecionados' = {}
    /\ meses_selecionados' = {}
    /\ procedimentos_selecionados' = {}
    /\ clientes_selecionados' = {}
    /\ df_filtrado' = << >>
    /\ total_quantidade' = << >>
    /\ num_registros' = << >>
    /\ df_evolucao' = << >>
    /\ df_top_proc' = << >>
    /\ df_cliente' = << >>
    /\ detalhe' = << >>

Init ==
    /\ file \in SmallFiles
    /\ reads = 0
    /\ cache = NoEntry
    /\ cache_hit = FALSE
    /\ pc = "l7"
    /\ excecao = 0
    /\ df = Unset
    /\ rendered = {}
    /\ widgets = NoWidgets
    /\ anos_disponiveis = << >>
    /\ meses_disponiveis = << >>
    /\ procedimentos_disponiveis = << >>
    /\ clientes_disponiveis = << >>
    /\ anos_selecionados = {}
    /\ meses_selecionados = {}
    /\ procedimentos_selecionados = {}
    /\ clientes_selecionados = {}
    /\ df_filtrado = << >>
    /\ total_quantidade = << >>
    /\ num_registros = << >>
    /\ df_evolucao = << >>
    /\ df_top_proc = << >>
    /\ df_cliente = << >>
    /\ detalhe = << >>

\* an st.* call that shows one element, with no statement after it
Mostrar(el, para) ==
    /\ rendered' = rendered \cup { el }
    /\ pc' = para
    /\ UNCHANGED << carga, excecao, df, widgets, opcoes, selecoes,
                    df_filtrado, agregados >>

\* line 7: st.set_page_config shows nothing on the page
PageConfig ==
    /\ pc = "l7"
    /\ pc' = "l33"
    /\ UNCHANGED << carga, excecao, df, rendered, widgets, opcoes, selecoes,
                    df_filtrado, agregados >>

\* line 33, the call: the spinner is entered and the cache looked up; on a
\* miss the body runs (lines 16-23).  A load that succeeds returns and its
\* result is stored; one that fails reaches st.error (line 25 or 28) with
\* nothing stored yet; a stored failure has its st.error replayed.
Consultar ==
    /\ pc = "l33"
    /\ LET entry == CacheLookup(cache)
           hit == entry.tag # "empty"
           result == IF hit THEN entry ELSE carregar_dados_consolidados(file)
       IN /\ cache_hit' = hit
          /\ reads' = IF hit THEN reads ELSE reads + 1
          /\ cache' = IF hit \/ result.msg # "" THEN cache ELSE result
          /\ pc' = IF result.msg # "" THEN "l25" ELSE "saida"
    /\ UNCHANGED << file, excecao, df, rendered, widgets, opcoes, selecoes,
                    df_filtrado, agregados >>

\* lines 25-26 and 28-29: st.error, then the function returns None and
\* st.cache_data stores it with the message; on a hit, the replay of the
\* stored message
MostrarErro ==
    /\ pc = "l25"
    /\ LET result == IF cache_hit THEN cache
                     ELSE carregar_dados_consolidados(file)
       IN /\ rendered' = rendered \cup { result.msg }
          /\ cache' = result
    /\ pc' = "saida"
    /\ UNCHANGED << file, reads, cache_hit, excecao, df, widgets, opcoes,
                    selecoes, df_filtrado, agregados >>

\* line 33, the return: the spinner is left and df is bound to the stored
\* result; line 35 tests it
Retornar ==
    /\ pc = "saida"
    /\ df' = [tag |-> cache.tag, cols |-> cache.cols, rows |-> cache.rows]
    /\ pc' = IF ShouldStop(df') THEN "l36" ELSE "l39"
    /\ UNCHANGED << carga, excecao, rendered, widgets, opcoes, selecoes,
                    df_filtrado, agregados >>

\* line 36: st.stop()
Stop ==
    /\ pc = "l36"
    /\ pc' = "stopped"
    /\ UNCHANGED << carga, excecao, df, rendered, widgets, opcoes, selecoes,
                    df_filtrado, agregados >>

\* line 39: st.title
Titulo == pc = "l39" /\ Mostrar("title", "l40")

\* line 40: st.markdown
Introducao == pc = "l40" /\ Mostrar("intro", "l43")

\* line 43: st.sidebar.header; line 46: the years, KeyError without Ano
Filtros ==
    /\ pc = "l43"
    /\ IF "Ano" \in df.cols
       THEN /\ anos_disponiveis' = SortedIntsDesc(Unique(df.rows, "Ano"))
            /\ rendered' = rendered \cup { "filtros" }
            /\ pc' = "l47"
            /\ UNCHANGED excecao
       ELSE /\ rendered' = rendered \cup { "filtros", "exception" }
            /\ pc' = "crashed"
            /\ excecao' = 46
            /\ UNCHANGED anos_disponiveis
    /\ UNCHANGED << carga, df, widgets, meses_disponiveis,
                    procedimentos_disponiveis, clientes_disponiveis,
                    selecoes, df_filtrado, agregados >>

\* lines 47-51: the year multiselect; line 54: the months, KeyError
\* without Mes
Anos ==
    /\ pc = "l47"
    /\ anos_selecionados' = Multiselect("anos", anos_disponiveis)
    /\ widgets' = [widgets EXCEPT !.registered = @ \cup { "anos" },
                                  !.anos = anos_selecionados']
    /\ IF "Mes" \in df.cols
       THEN /\ meses_disponiveis' = SortedInts(Unique(df.rows, "Mes"))
            /\ rendered' = rendered \cup { "anos" }
            /\ pc' = "l55"
            /\ UNCHANGED excecao
       ELSE /\ rendered' = rendered \cup { "anos", "exception" }
            /\ pc' = "crashed"
            /\ excecao' = 54
            /\ UNCHANGED meses_disponiveis
    /\ UNCHANGED << carga, df, anos_disponiveis, procedimentos_disponiveis,
                    clientes_disponiveis, meses_selecionados,
                    procedimentos_selecionados, clientes_selecionados,
                    df_filtrado, agregados >>

\* lines 55-59: the month multiselect; line 62: the procedures
Meses ==
    /\ pc = "l55"
    /\ meses_selecionados' = Multiselect("meses", meses_disponiveis)
    /\ widgets' = [widgets EXCEPT !.registered = @ \cup { "meses" },
                                  !.meses = meses_selecionados']
    /\ procedimentos_disponiveis' = SortedStrs(Unique(df.rows, "Procedimento"))
    /\ rendered' = rendered \cup { "meses" }
    /\ pc' = "l63"
    /\ UNCHANGED << carga, excecao, df, anos_disponiveis, meses_disponiveis,
                    clientes_disponiveis, anos_selecionados,
                    procedimentos_selecionados, clientes_selecionados,
                    df_filtrado, agregados >>

\* lines 63-67: the procedure multiselect; line 70: the clients, TypeError
\* when sorted() meets a missing value among strings
Procedimentos ==
    /\ pc = "l63"
    /\ procedimentos_selecionados' =
           Multiselect("procedimentos", procedimentos_disponiveis)
    /\ widgets' = [widgets EXCEPT !.registered = @ \cup { "procedimentos" },
                                  !.procedimentos = procedimentos_selecionados']
    /\ IF SortRaises(Unique(df.rows, "Cliente"))
       THEN /\ rendered' = rendered \cup { "procedimentos", "exception" }
            /\ pc' = "crashed"
            /\ excecao' = 70
            /\ UNCHANGED clientes_disponiveis
       ELSE /\ clientes_disponiveis' = SortedStrs(Unique(df.rows, "Cliente"))
            /\ rendered' = rendered \cup { "procedimentos" }
            /\ pc' = "l71"
            /\ UNCHANGED excecao
    /\ UNCHANGED << carga, df, anos_disponiveis, meses_disponiveis,
                    procedimentos_disponiveis, anos_selecionados,
                    meses_selecionados, clientes_selecionados,
                    df_filtrado, agregados >>

\* `df = df[...]`: the filter overwrites the source table
FiltrarInPlace ==
    /\ df_filtrado' = FilterRows(df.rows, anos_selecionados, meses_selecionados,
                                 procedimentos_selecionados,
                                 clientes_selecionados')
    /\ df' = [df EXCEPT !.rows = df_filtrado']
    /\ pc' = IF IsEmpty(df_filtrado') THEN "l87" ELSE "l90"

\* lines 78-83: df_filtrado = df[...] with the selections just made; line
\* 86 tests df_filtrado.empty
Filtrar ==
    /\ df_filtrado' = FilterRows(df.rows, anos_selecionados, meses_selecionados,
                                 procedimentos_selecionados,
                                 clientes_selecionados')
    /\ df' = df
    /\ pc' = IF IsEmpty(df_filtrado') THEN "l87" ELSE "l90"

\* lines 71-75: the client multiselect; lines 78-86: the filter, which
\* makes no st.* call
Clientes ==
    /\ pc = "l71"
    /\ clientes_selecionados' = Multiselect("clientes", clientes_disponiveis)
    /\ widgets' = [widgets EXCEPT !.registered = @ \cup { "clientes" },
                                  !.clientes = clientes_selecionados']
    /\ rendered' = rendered \cup { "clientes" }
    /\ Filtrar
    /\ UNCHANGED << carga, excecao, opcoes, anos_selecionados,
                    meses_selecionados, procedimentos_selecionados,
                    agregados >>

\* line 87: st.warning
Aviso == pc = "l87" /\ Mostrar("warning", "l150")

\* line 90: st.header; lines 91-92: the totals, KeyError without Quantidade
Resumo ==
    /\ pc = "l90"
    /\ IF "Quantidade" \in df.cols
       THEN /\ total_quantidade' = << SumQuantidade(df_filtrado) >>
            /\ num_registros' = << Len(df_filtrado) >>
            /\ rendered' = rendered \cup { "resumo_titulo" }
            /\ pc' = "l94"
            /\ UNCHANGED excecao
       ELSE /\ rendered' = rendered \cup { "resumo_titulo", "exception" }
            /\ pc' = "crashed"
            /\ excecao' = 91
            /\ UNCHANGED << total_quantidade, num_registros >>
    /\ UNCHANGED << carga, df, widgets, opcoes, selecoes, df_filtrado,
                    df_evolucao, df_top_proc, df_cliente, detalhe >>

\* line 94: st.columns(2)
ResumoColunas == pc = "l94" /\ Mostrar("resumo_colunas", "l95")

\* line 95: col1.metric
MetricaTotal == pc = "l95" /\ Mostrar("metric_total", "l96")

\* line 96: col2.metric
MetricaRegistros == pc = "l96" /\ Mostrar("metric_registros", "l98")

\* line 98: st.markdown
Separador == pc = "l98" /\ Mostrar("separador", "l101")

\* line 101: st.header
Graficos == pc = "l101" /\ Mostrar("graficos_titulo", "l102")

\* line 102: st.columns(2)
GraficosColunas == pc = "l102" /\ Mostrar("graficos_colunas", "l106")

\* line 106: st.subheader; lines 107-114: the time series
EvolucaoTitulo ==
    /\ pc = "l106"
    /\ df_evolucao' = GroupByData(df_filtrado)
    /\ rendered' = rendered \cup { "evolucao_titulo" }
    /\ pc' = "l115"
    /\ UNCHANGED << carga, excecao, df, widgets, opcoes, selecoes, df_filtrado,
                    total_quantidade, num_registros, df_top_proc, df_cliente,
                    detalhe >>

\* line 115: st.plotly_chart
Evolucao == pc = "l115" /\ Mostrar("evolucao", "l118")

\* line 118: st.subheader; lines 119-127: the ten largest procedures
TopProcTitulo ==
    /\ pc = "l118"
    /\ df_top_proc' = NLargest(TopN, GroupByProcedimento(df_filtrado))
    /\ rendered' = rendered \cup { "top_proc_titulo" }
    /\ pc' = "l128"
    /\ UNCHANGED << carga, excecao, df, widgets, opcoes, selecoes, df_filtrado,
                    total_quantidade, num_registros, df_evolucao, df_cliente,
                    detalhe >>

\* line 128: st.plotly_chart
TopProc == pc = "l128" /\ Mostrar("top_proc", "l132")

\* line 132: st.subheader; lines 133-140: the totals per client
ClienteTitulo ==
    /\ pc = "l132"
    /\ df_cliente' = GroupByCliente(df_filtrado)
    /\ rendered' = rendered \cup { "cliente_titulo" }
    /\ pc' = "l141"
    /\ UNCHANGED << carga, excecao, df, widgets, opcoes, selecoes, df_filtrado,
                    total_quantidade, num_registros, df_evolucao, df_top_proc,
                    detalhe >>

\* line 141: st.plotly_chart
GraficoCliente == pc = "l141" /\ Mostrar("cliente", "l144")

\* line 144: st.markdown
SeparadorDetalhe == pc = "l144" /\ Mostrar("detalhe_separador", "l145")

\* line 145: st.header
DetalheTitulo == pc = "l145" /\ Mostrar("detalhe_titulo", "l147")

\* line 147: st.dataframe of the projected view
Detalhe ==
    /\ pc = "l147"
    /\ detalhe' = Project(df_filtrado)
    /\ rendered' = rendered \cup { "detalhe" }
    /\ pc' = "l150"
    /\ UNCHANGED << carga, excecao, df, widgets, opcoes, selecoes, df_filtrado,
                    total_quantidade, num_registros, df_evolucao, df_top_proc,
                    df_cliente >>

\* line 150: st.sidebar.markdown
RodapeSeparador == pc = "l150" /\ Mostrar("rodape_separador", "l151")

\* line 151: st.sidebar.info, the last statement of the script
Rodape == pc = "l151" /\ Mostrar("rodape", "done")

\* The current run can end where it stands: it is over (done, stopped,
\* crashed), or a stop or rerun request is pending when it makes the st.*
\* call it has reached, and the script runner raises there what no
\* `except Exception` catches.  (No load is aborted at st.error once the
\* file was read MaxReads times.)
PodeEncerrar == ~ (pc = "l25" /\ ~ cache_hit /\ reads >= MaxReads)

\* The multiselects the browser holds when the next run starts.  A rerun
\* request leaves the page as it is, widgets of the run before included; a
\* run ended by the stop button keeps only the widgets it created itself.
Pagina(parar) ==
    LET vivos == IF parar THEN widgets.registered \cap rendered
                 ELSE widgets.registered
    IN [registered |-> vivos,
        touched |-> widgets.touched,
        anos |-> IF "anos" \in vivos THEN widgets.anos ELSE {},
        meses |-> IF "meses" \in vivos THEN widgets.meses ELSE {},
        procedimentos |-> IF "procedimentos" \in vivos
                          THEN widgets.procedimentos ELSE {},
        clientes |-> IF "clientes" \in vivos THEN widgets.clientes ELSE {}]

\* the stop button is there while the run is under way
PodeParar(parar) ==
    parar => /\ pc \notin { "done", "stopped", "crashed" }
             /\ widgets.registered \ rendered # {}

\* the options of a multiselect on the page: those of the cached table
OpcoesDe(name) ==
    CASE name = "anos" -> Unique(cache.rows, "Ano")
      [] name = "meses" -> Unique(cache.rows, "Mes")
      [] name = "procedimentos" -> Unique(cache.rows, "Procedimento")
      [] name = "clientes" -> Unique(cache.rows, "Cliente")

\* the user changes one multiselect on the page, during a run or after it:
\* the script runs again from the top
UserSelects ==
    /\ PodeEncerrar
    /\ \E parar \in BOOLEAN :
         /\ PodeParar(parar)
         /\ LET pagina == Pagina(parar)
            IN \/ \E S \in SUBSET OpcoesDe("anos") :
                    /\ "anos" \in pagina.registered
                    /\ S # pagina.anos
                    /\ widgets' = [pagina EXCEPT !.touched = TRUE, !.anos = S]
               \/ \E S \in SUBSET OpcoesDe("meses") :
                    /\ "meses" \in pagina.registered
                    /\ S # pagina.meses
                    /\ widgets' = [pagina EXCEPT !.touched = TRUE, !.meses = S]
               \/ \E S \in SUBSET OpcoesDe("procedimentos") :
                    /\ "procedimentos" \in pagina.registered
                    /\ S # pagina.procedimentos
                    /\ widgets' = [pagina EXCEPT !.touched = TRUE,
                                                 !.procedimentos = S]
               \/ \E S \in SUBSET OpcoesDe("clientes") :
                    /\ "clientes" \in pagina.registered
                    /\ S # pagina.clientes
                    /\ widgets' = [pagina EXCEPT !.touched = TRUE,
                                                 !.clientes = S]
    /\ FreshRun
    /\ pc' = "l7"
    /\ UNCHANGED carga

\* the user reruns the script (or stops it and reruns it later) without
\* touching a widget
Rerun ==
    /\ PodeEncerrar
    /\ \E parar \in BOOLEAN :
         /\ PodeParar(parar)
         /\ widgets' = Pagina(parar)
    /\ FreshRun
    /\ pc' = "l7"
    /\ UNCHANGED carga

Next ==
    \/ PageConfig
    \/ Consultar
    \/ MostrarErro
    \/ Retornar
    \/ Stop
    \/ Titulo
    \/ Introducao
    \/ Filtros
    \/ Anos
    \/ Meses
    \/ Procedimentos
    \/ Clientes
    \/ Aviso
    \/ Resumo
    \/ ResumoColunas
    \/ MetricaTotal
    \/ MetricaRegistros
    \/ Separador
    \/ Graficos
    \/ GraficosColunas
    \/ EvolucaoTitulo
    \/ Evolucao
    \/ TopProcTitulo
    \/ TopProc
    \/ ClienteTitulo
    \/ GraficoCliente
    \/ SeparadorDetalhe
    \/ DetalheTitulo
    \/ Detalhe
    \/ RodapeSeparador
    \/ Rodape
    \/ UserSelects
    \/ Rerun

Spec == Init /\ [][Next]_vars

----------------------------------------------------------------------------
(* The top-procedure step on large tables: the first run on a large file,  *)
(* arrived at line 118.                                                    *)

InitTop ==
    /\ IsBigFile(file)
    /\ reads = 1
    /\ cache = carregar_dados_consolidados(file)
    /\ cache_hit = FALSE
    /\ pc = "l118"
    /\ excecao = 0
    /\ df = [tag |-> cache.tag, cols |-> cache.cols, rows |-> cache.rows]
    /\ rendered = { "title", "intro", "filtros", "anos", "meses",
                    "procedimentos", "clientes", "resumo_titulo",
                    "resumo_colunas", "metric_total", "metric_registros",
                    "separador", "graficos_titulo", "graficos_colunas",
                    "evolucao_titulo", "evolucao" }
    /\ anos_disponiveis = SortedIntsDesc(Unique(df.rows, "Ano"))
    /\ meses_disponiveis = SortedInts(Unique(df.rows, "Mes"))
    /\ procedimentos_disponiveis = SortedStrs(Unique(df.rows, "Procedimento"))
    /\ clientes_disponiveis = SortedStrs(Unique(df.rows, "Cliente"))
    /\ anos_selecionados = DefaultSelection(anos_disponiveis)
    /\ meses_selecionados = DefaultSelection(meses_disponiveis)
    /\ procedimentos_selecionados = DefaultSelection(procedimentos_disponiveis)
    /\ clientes_selecionados = DefaultSelection(clientes_disponiveis)
    /\ widgets = [registered |-> WidgetNames,
                  touched |-> FALSE,
                  anos |-> anos_selecionados,
                  meses |-> meses_selecionados,
                  procedimentos |-> procedimentos_selecionados,
                  clientes |-> clientes_selecionados]
    /\ df_filtrado = FilterRows(df.rows, anos_selecionados, meses_selecionados,
                                procedimentos_selecionados,
                                clientes_selecionados)
    /\ total_quantidade = << SumQuantidade(df_filtrado) >>
    /\ num_registros = << Len(df_filtrado) >>
    /\ df_evolucao = GroupByData(df_filtrado)
    /\ df_top_proc = << >>
    /\ df_cliente = << >>
    /\ detalhe = << >>

NextTop == TopProcTitulo

SpecTop == InitTop /\ [][NextTop]_vars

----------------------------------------------------------------------------
(* Properties *)

\* number of occurrences of a row in a table
Count(rows, r) == Cardinality({ i \in 1..Len(rows) : rows[i] = r })

RECURSIVE QuantidadeOf(_, _, _, _)
\* total Quantidade of the first n rows whose column col holds key
QuantidadeOf(rows, col, key, n) ==
    IF n = 0 THEN 0
    ELSE QuantidadeOf(rows, col, key, n - 1)
         + (IF rows[n][col] = key THEN rows[n].Quantidade ELSE 0)

RECURSIVE QuantidadeTotal(_, _)
\* total Quantidade of the first n rows
QuantidadeTotal(rows, n) ==
    IF n = 0 THEN 0 ELSE QuantidadeTotal(rows, n - 1) + rows[n].Quantidade

Selected(r) ==
    /\ r.Ano \in anos_selecionados
    /\ r.Mes \in meses_selecionados
    /\ r.Procedimento \in procedimentos_selecionados
    /\ r.Cliente \in clientes_selecionados

\* the positions that come after each position of the script
Depois ==
    [ p \in Range(Roteiro) |->
        { Roteiro[j] : j \in { k \in 1..Len(Roteiro) :
                                  \E i \in 1..(k - 1) : Roteiro[i] = p } } ]

\* the run has got past the position p of the script
Apos(p) == pc \in Depois[p]

\* the run has made its four multiselects
SidebarFeita == Apos("l71") \/ (pc = "crashed" /\ excecao = 91)

\* the run has computed its filtered view
FiltroFeito == Apos("l71") \/ (pc = "crashed" /\ excecao = 91)

\* the summary metrics, the three charts and the detail table, in script
\* order
Resultados ==
    << "metric_total", "metric_registros", "evolucao", "top_proc", "cliente",
       "detalhe" >>

\* everything lines 90-147 put on the page
RamoResultados ==
    Range(Resultados) \cup
    { "resumo_titulo", "resumo_colunas", "separador", "graficos_titulo",
      "graficos_colunas", "evolucao_titulo", "top_proc_titulo",
      "cliente_titulo", "detalhe_separador", "detalhe_titulo" }

ErrorElements == { "error_notfound", "error_load" }

NothingComputed ==
    /\ anos_disponiveis = << >> /\ meses_disponiveis = << >>
    /\ procedimentos_disponiveis = << >> /\ clientes_disponiveis = << >>
    /\ anos_selecionados = {} /\ meses_selecionados = {}
    /\ procedimentos_selecionados = {} /\ clientes_selecionados = {}
    /\ df_filtrado = << >>
    /\ total_quantidade = << >> /\ num_registros = << >>
    /\ df_evolucao = << >> /\ df_top_proc = << >> /\ df_cliente = << >>
    /\ detalhe = << >>

\* the result st.cache_data holds, as a run sees it
Stored(c) == [tag |-> c.tag, cols |-> c.cols, rows |-> c.rows]

\* C1: once the filter has run, a row is in the filtered view exactly when
\* its Ano, Mes, Procedimento and Cliente are all in the selected sets (with
\* its multiplicity in the loaded table), and every row of the filtered view
\* is a row of the loaded table.
C1_FilteredIffAllSelected ==
    FiltroFeito =>
        /\ \A i \in 1..Len(df_filtrado) :
               \E j \in 1..Len(df.rows) : df.rows[j] = df_filtrado[i]
        /\ \A j \in 1..Len(df.rows) :
               Count(df_filtrado, df.rows[j]) =
                   IF Selected(df.rows[j]) THEN Count(df.rows, df.rows[j])
                   ELSE 0

\* a filter that keeps some rows and drops others
C1_Witness ==
    /\ pc = "l90"
    /\ widgets.touched
    /\ Len(df_filtrado) > 0
    /\ Len(df_filtrado) < Len(df.rows)

\* what section 4.1 of the specification lists as a load failure: no file,
\* malformed content, a missing expected column, an unparseable date
SpecLoadError(f) ==
    \/ f.kind # "csv"
    \/ f.cols # Colunas
    \/ \E i \in 1..Len(f.rows) : ~ DateParses(f.rows[i].Data)

\* C2: when the load fails the loader returns no table, the run computes
\* no option list, selection, filtered view or aggregate and shows nothing
\* but the error, and a run that has stopped has shown the error.
C2_LoadFailureHalts ==
    SpecLoadError(file) =>
        /\ cache.tag # "table"
        /\ df.tag # "table"
        /\ NothingComputed
        /\ rendered \subseteq ErrorElements
        /\ pc \notin { "done", "crashed" }
        /\ (pc = "stopped" => rendered \cap ErrorElements # {})

\* C3 as stated: the file is read at most once however often the script
\* runs; a run holds the stored result.
C3_ReadAtMostOnce ==
    /\ reads <= 1
    /\ (cache.tag # "empty" => reads = 1)
    /\ (cache_hit => reads = 1)
    /\ (df.tag # "unset" => df = Stored(cache))

\* C3 amended: once a loader call has returned, its result stays stored and
\* no later call reads the file; every call that returns binds df to the
\* stored result without having read the file on a hit; a file that loads
\* is read at most once.  Only failing loads that are aborted before they
\* return are read again.
C3_NoReadOnceStored ==
    [][ /\ (cache.tag # "empty" => reads' = reads /\ cache' = cache)
        /\ (pc = "l33" /\ cache_hit' => reads' = reads)
        /\ (pc = "saida" /\ pc' # "l7" =>
                /\ cache.tag # "empty"
                /\ df' = Stored(cache'))
        /\ (df'.tag # "unset" => df' = Stored(cache'))
        /\ (cache'.tag = "table" => reads' <= 1)
      ]_vars

\* a later run, after a selection change, served by the cache
C3_Witness ==
    /\ pc = "done"
    /\ cache_hit
    /\ widgets.touched
    /\ reads = 1

\* no row of the loaded table has a selected year
YearAbsent == \A i \in 1..Len(df.rows) : df.rows[i].Ano \notin anos_selecionados

\* C4: when a run on a file with the six columns has ended with no year of
\* the table's rows among the selected years, the filtered view is empty
\* and the summary reports total 0 and count 0.
C4_EmptyYearSummaryZero ==
    pc = "done" /\ df.cols = Colunas /\ Len(df.rows) > 0 /\ YearAbsent =>
        /\ df_filtrado = << >>
        /\ total_quantidade = << 0 >>
        /\ num_registros = << 0 >>

\* C5 as stated: every run on a file with the six columns that has
\* computed its filtered view ends with the notice and none of summary,
\* charts and table when the view is empty, and with all of those and no
\* notice otherwise.
C5_EveryRun ==
    [][ pc' = "l7" /\ file.cols = Colunas /\ FiltroFeito =>
            IF Len(df_filtrado) = 0
            THEN /\ "warning" \in rendered
                 /\ rendered \cap Range(Resultados) = {}
            ELSE /\ Range(Resultados) \subseteq rendered
                 /\ "warning" \notin rendered ]_vars

\* C5 amended: a run that reaches the end of the script shows the notice
\* and none of summary, charts and detail table when its filtered view is
\* empty, all of those and no notice otherwise, and no error.  A run that
\* ends earlier shows the elements up to the point it reached: the notice
\* only for an empty view and with nothing of lines 90-147, an element of
\* lines 90-147 only for a non-empty view and without the notice, summary,
\* charts and table in script order with none left out before the last.
C5_CompletedRunNotice ==
    /\ (pc = "done" =>
            /\ rendered \cap (ErrorElements \cup { "exception" }) = {}
            /\ IF Len(df_filtrado) = 0
               THEN /\ "warning" \in rendered
                    /\ rendered \cap RamoResultados = {}
                    /\ total_quantidade = << >> /\ num_registros = << >>
                    /\ df_evolucao = << >> /\ df_top_proc = << >>
                    /\ df_cliente = << >> /\ detalhe = << >>
               ELSE /\ RamoResultados \subseteq rendered
                    /\ "warning" \notin rendered
                    /\ total_quantidade # << >> /\ num_registros # << >>
                    /\ Len(detalhe) = Len(df_filtrado))
    /\ ("warning" \in rendered =>
            /\ FiltroFeito
            /\ Len(df_filtrado) = 0
            /\ rendered \cap RamoResultados = {})
    /\ (rendered \cap RamoResultados # {} =>
            /\ FiltroFeito
            /\ Len(df_filtrado) > 0
            /\ "warning" \notin rendered)
    /\ \A i, j \in 1..Len(Resultados) :
           i < j /\ Resultados[j] \in rendered => Resultados[i] \in rendered

\* a table with rows filtered down to nothing, the run complete
C5_Witness ==
    /\ pc = "done"
    /\ Len(df.rows) > 0
    /\ Len(df_filtrado) = 0
    /\ "warning" \in rendered

ProcGroups == Unique(df_filtrado, "Procedimento")

TopReturned == { df_top_proc[i].key : i \in 1..Len(df_top_proc) }

ProcTotal(p) == QuantidadeOf(df_filtrado, "Procedimento", p, Len(df_filtrado))

\* C6: the top-procedure aggregate has at most 10 groups, has every group
\* when there are at most 10, carries each group's sum, and no group left
\* out has a larger sum than a group kept.
C6_TopTen ==
    Apos("l118") =>
        /\ Len(df_top_proc) <= 10
        /\ Cardinality(TopReturned) = Len(df_top_proc)
        /\ TopReturned \subseteq ProcGroups
        /\ (Cardinality(ProcGroups) <= 10 => TopReturned = ProcGroups)
        /\ \A i \in 1..Len(df_top_proc) :
               df_top_proc[i].Quantidade = ProcTotal(df_top_proc[i].key)
        /\ \A p \in TopReturned : \A q \in ProcGroups \ TopReturned :
               ProcTotal(p) >= ProcTotal(q)

\* more than 10 procedures with different sums: some are left out
C6_Witness ==
    /\ pc = "l128"
    /\ Cardinality(ProcGroups) > 10
    /\ Len(df_top_proc) = 10
    /\ \E p \in TopReturned : \E q \in ProcGroups \ TopReturned :
           ProcTotal(p) > ProcTotal(q)

\* C7: for a non-empty filtered view the per-client sums add up to the
\* total shown in the summary, which is the sum of Quantidade over the rows
\* of the filtered view; each client of the view has exactly one group.
C7_ClientSumsAddUp ==
    /\ (Apos("l90") /\ Len(df_filtrado) > 0 =>
            total_quantidade =
                << QuantidadeTotal(df_filtrado, Len(df_filtrado)) >>)
    /\ (Apos("l132") /\ Len(df_filtrado) > 0 =>
            /\ QuantidadeTotal(df_cliente, Len(df_cliente))
                   = total_quantidade[1]
            /\ { df_cliente[i].key : i \in 1..Len(df_cliente) }
                   = Unique(df_filtrado, "Cliente")
            /\ Cardinality(Unique(df_filtrado, "Cliente")) = Len(df_cliente))

\* a client group that merges rows with a positive total
C7_Witness ==
    /\ pc = "done"
    /\ Len(df_filtrado) > Len(df_cliente)
    /\ Len(df_cliente) > 0
    /\ total_quantidade[1] > df_filtrado[1].Quantidade

AllSelected ==
    /\ anos_selecionados = Range(anos_disponiveis)
    /\ meses_selecionados = Range(meses_disponiveis)
    /\ procedimentos_selecionados = Range(procedimentos_disponiveis)
    /\ clientes_selecionados = Range(clientes_disponiveis)

\* C8: each option list holds exactly the distinct values of its column in
\* the loaded table, once each; until the user changes a widget every
\* option is selected; with every option selected the filtered view is the
\* loaded table.
C8_OptionsDefaultsIdentity ==
    /\ (SidebarFeita =>
            /\ Range(anos_disponiveis) = Unique(df.rows, "Ano")
            /\ Range(meses_disponiveis) = Unique(df.rows, "Mes")
            /\ Range(procedimentos_disponiveis)
                   = Unique(df.rows, "Procedimento")
            /\ Range(clientes_disponiveis) = Unique(df.rows, "Cliente")
            /\ Len(anos_disponiveis) = Cardinality(Unique(df.rows, "Ano"))
            /\ Len(meses_disponiveis) = Cardinality(Unique(df.rows, "Mes"))
            /\ Len(procedimentos_disponiveis)
                   = Cardinality(Unique(df.rows, "Procedimento"))
            /\ Len(clientes_disponiveis)
                   = Cardinality(Unique(df.rows, "Cliente"))
            /\ (~ widgets.touched => AllSelected))
    /\ (FiltroFeito /\ AllSelected => df_filtrado = df.rows)

\* the first render of a table with several values per dimension
C8_Witness ==
    /\ pc = "l90"
    /\ ~ widgets.touched
    /\ Len(anos_disponiveis) = 2
    /\ Len(clientes_disponiveis) = 2
    /\ df_filtrado = df.rows

\* C9: no step changes the loaded table: the cached table and the table
\* held by a run stay as loaded through every filter, aggregate, projection
\* and re-run.
C9_SourceTableUnchanged ==
    [][ /\ (cache.tag = "table" => cache' = cache)
        /\ (df.tag = "table" /\ df'.tag = "table" => df' = df)
        /\ (df'.tag = "table" => df' = Stored(cache')) ]_vars

\* a later run whose filter dropped rows, the source still as loaded
C9_Witness ==
    /\ pc = "done"
    /\ cache_hit
    /\ widgets.touched
    /\ Len(df_filtrado) < Len(df.rows)
    /\ df.rows = cache.rows

\* convert to string, strip, uppercase
Normalize(v) == StrUpper(Strip(AsTypeStr(v)))

\* C10: after a successful load every Cliente and Procedimento value is a
\* fixed point of normalization (convert to string, strip, uppercase).
C10_NormalizedFixedPoint ==
    df.tag = "table" =>
        \A i \in 1..Len(df.rows) :
            /\ Normalize(df.rows[i].Procedimento) = df.rows[i].Procedimento
            /\ Normalize(df.rows[i].Cliente) = df.rows[i].Cliente

====
